---- MODULE Spec2Model ----
(***************************************************************************)
(* A model of the Excel tool server of src/app.py: the POST /mcp/run       *)
(* handler run_tool, its helpers load_workbook_from_b64 and                *)
(* parse_range_string, and the client that sends requests and keeps the    *)
(* file a set_cell answer returns.                                         *)
(*                                                                         *)
(* Python exceptions are modelled as values: every helper returns a record *)
(* with ok = TRUE and a value, or ok = FALSE and the class of the          *)
(* exception raised (exc) and its message (msg).  The spreadsheet library  *)
(* calls (workbook[name], sheet[address], workbook.active, save, load) are *)
(* modelled by what the library does at the line that calls it.            *)
(***************************************************************************)
EXTENDS Integers, Sequences, FiniteSets, TLC

\* ------------------------------------------------------------------ bounds
MaxRow == 2
MaxCol == 2
MaxNum == 2

Rows == 1..MaxRow
Cols == 1..MaxCol
Cells == Rows \X Cols

\* ------------------------------------------------------------ cell values
\* A value is a record of one shape: t is its type, n/d a number (d = 1 for
\* an integer), s a text as a sequence of characters, b a boolean.
Val(t, n, d, s, b) == [t |-> t, n |-> n, d |-> d, s |-> s, b |-> b]
Num(n) == Val("num", n, 1, <<>>, FALSE)
Txt(s) == Val("str", 0, 1, s, FALSE)
Bool(b) == Val("bool", 0, 1, <<>>, b)
None == Val("none", 0, 1, <<>>, FALSE)

\* The values a cell of an uploaded file may hold.
FileValues == {Num(n) : n \in 1..MaxNum} \cup {Txt(<<"x">>), Bool(TRUE)}

\* ---------------------------------------------------------------- documents
EmptyGrid == [c \in Cells |-> None]
Sheet(title, cells) == [title |-> title, cells |-> cells]
Doc(sheets, active) == [sheets |-> sheets, active |-> active]
NoDoc == Doc(<<>>, 0)

\* A data URL as the client sends it: comma says whether it holds a comma,
\* b64 whether the payload is base64, zip whether the bytes are a workbook.
Url(comma, b64, zip, doc) == [comma |-> comma, b64 |-> b64, zip |-> zip, doc |-> doc]
NoUrl == Url(FALSE, FALSE, FALSE, NoDoc)
XlsxUrl(doc) == Url(TRUE, TRUE, TRUE, doc)

\* ------------------------------------------------------------- references
\* A reference string is a sequence of tokens: a sheet name, the '!' and ':'
\* separators, a cell coordinate (column, row), or text that is none of these.
Tok(t, name, col, row) == [t |-> t, name |-> name, col |-> col, row |-> row]
NameTok(name) == Tok("name", name, 0, 0)
Bang == Tok("bang", "", 0, 0)
Colon == Tok("colon", "", 0, 0)
Coord(col, row) == Tok("coord", "", col, row)
Junk == Tok("junk", "", 0, 0)

\* ------------------------------------------------------- JSON parameter values
\* k: "missing" (no such key), "str", "num", "null", "list".  A string used as
\* a file is a data URL (url), as a range or cell a reference (toks), as a
\* value a text (s).
JV(k, url, toks, s, n) == [k |-> k, url |-> url, toks |-> toks, s |-> s, n |-> n]
Missing == JV("missing", NoUrl, <<>>, <<>>, 0)
JNull == JV("null", NoUrl, <<>>, <<>>, 0)
JNum(n) == JV("num", NoUrl, <<>>, <<>>, n)
JList == JV("list", NoUrl, <<>>, <<>>, 0)
JFile(url) == JV("str", url, <<>>, <<>>, 0)
JRef(toks) == JV("str", NoUrl, toks, <<>>, 0)
JStr(s) == JV("str", NoUrl, <<>>, s, 0)

\* ------------------------------------------------------- exceptions as values
Ok(val) == [ok |-> TRUE, exc |-> "", msg |-> "", val |-> val]
Raise(exc, msg) == [ok |-> FALSE, exc |-> exc, msg |-> msg, val |-> None]

\* Messages of the failures the handler reports.
MsgBadB64 == "Invalid base64 file format"
MsgBadXlsx == "Failed to parse Excel file"
MsgNoBang == "Invalid range format. Expected 'SheetName!A1:B10'."
MsgNoSheet == "Worksheet does not exist."
MsgBadAddr == "not a valid coordinate or range"
MsgNoValue == "'tuple' object has no attribute 'value'"
MsgNotIterable == "'Cell' object is not iterable"
MsgNotSubscriptable == "object is not subscriptable"
MsgNotContainer == "argument is not iterable"
MsgNotNumber == "float() argument must be a string or a real number"
MsgNoGet == "object has no attribute 'get'"
MsgBadJson == "400 Bad Request"
MsgMissing == "missing key"

\* ------------------------------------------------ load_workbook_from_b64
\* The try body of load_workbook_from_b64: split(",", 1) and the unpacking,
\* base64.b64decode, openpyxl.load_workbook.
SplitDecodeLoad(file) ==
  IF file.k # "str" THEN Raise("AttributeError", "no attribute 'split'")
  ELSE IF ~file.url.comma THEN Raise("ValueError", "not enough values to unpack")
  ELSE IF ~file.url.b64 THEN Raise("binascii.Error", "Incorrect padding")
  ELSE IF ~file.url.zip THEN Raise("BadZipFile", "File is not a zip file")
  ELSE Ok(file.url.doc)

load_workbook_from_b64(file) ==
  LET r == SplitDecodeLoad(file) IN
  IF r.ok THEN r
  ELSE IF r.exc \in {"ValueError", "TypeError", "binascii.Error"}
       THEN Raise("ValueError", MsgBadB64)
  ELSE Raise("IOError", MsgBadXlsx)

\* ------------------------------------------------------ parse_range_string
HasBang(toks) == \E i \in 1..Len(toks) : toks[i] = Bang
FirstBang(toks) == CHOOSE i \in 1..Len(toks) : toks[i] = Bang /\ \A j \in 1..(i - 1) : toks[j] # Bang

\* A variant that reads a reference without '!' as an address of "Sheet1".
parse_range_string_default_sheet(range_str) ==
  IF range_str.k \in {"num", "null"} THEN Raise("TypeError", MsgNotContainer)
  ELSE IF range_str.k = "list" THEN Raise("ValueError", MsgNoBang)
  ELSE IF ~HasBang(range_str.toks) THEN Ok(<<<<NameTok("Sheet1")>>, range_str.toks>>)
  ELSE LET i == FirstBang(range_str.toks) IN
       Ok(<<SubSeq(range_str.toks, 1, i - 1),
            SubSeq(range_str.toks, i + 1, Len(range_str.toks))>>)

\* '!' not in range_str, then range_str.split('!', 1): a number or null is no
\* container (TypeError); a list that holds no '!' passes the test as absent.
parse_range_string(range_str) ==
  IF range_str.k \in {"num", "null"} THEN Raise("TypeError", MsgNotContainer)
  ELSE IF range_str.k = "list" THEN Raise("ValueError", MsgNoBang)
  ELSE IF ~HasBang(range_str.toks) THEN Raise("ValueError", MsgNoBang)
  ELSE LET i == FirstBang(range_str.toks) IN
       Ok(<<SubSeq(range_str.toks, 1, i - 1),
            SubSeq(range_str.toks, i + 1, Len(range_str.toks))>>)

\* ------------------------------------------------------------ params[key]
\* pk is what the body's "parameters" is: "dict", "absent" (the default {}),
\* or a JSON value that is no mapping.
GetParam(pk, p) ==
  IF pk \in {"dict", "absent"}
  THEN IF pk = "absent" \/ p.k = "missing" THEN Raise("KeyError", MsgMissing) ELSE Ok(p)
  ELSE Raise("TypeError", MsgNotSubscriptable)

\* ------------------------------------------------------------ workbook[name]
SheetIndex(wb, name) == {i \in 1..Len(wb.sheets) : name = <<NameTok(wb.sheets[i].title)>>}

WorkbookGetItem(wb, name) ==
  IF SheetIndex(wb, name) = {} THEN Raise("KeyError", MsgNoSheet)
  ELSE Ok(CHOOSE i \in SheetIndex(wb, name) : \A j \in SheetIndex(wb, name) : i <= j)

\* ------------------------------------------------------------ sheet[address]
\* A coordinate gives the cell; "c1:c2" gives the rows of the rectangle, top
\* to bottom, each row left to right; anything else is no coordinate or range.
RowOf(row, c1, c2) == [k \in 1..(IF c2 >= c1 THEN c2 - c1 + 1 ELSE 0) |-> <<row, c1 + k - 1>>]
RowsOf(a, b) ==
  [k \in 1..(IF b.row >= a.row THEN b.row - a.row + 1 ELSE 0) |-> RowOf(a.row + k - 1, a.col, b.col)]

SheetGetItem(addr) ==
  IF Len(addr) = 0 THEN Raise("IndexError", MsgBadAddr)
  ELSE IF Len(addr) = 1 /\ addr[1].t = "coord"
       THEN Ok([shape |-> "cell", cell |-> <<addr[1].row, addr[1].col>>, rows |-> <<>>])
  ELSE IF Len(addr) = 3 /\ addr[1].t = "coord" /\ addr[2].t = "colon" /\ addr[3].t = "coord"
       THEN Ok([shape |-> "rows", cell |-> <<0, 0>>, rows |-> RowsOf(addr[1], addr[3])])
  ELSE Raise("ValueError", MsgBadAddr)

\* ------------------------------------------------------------ numbers
Abs(n) == IF n < 0 THEN -n ELSE n

RECURSIVE Gcd(_, _)
Gcd(a, b) == IF b = 0 THEN a ELSE Gcd(b, a % b)

\* total / count: Python's true division, kept exact as a fraction in lowest
\* terms.
TrueDiv(total, count) ==
  LET g == Gcd(Abs(total), count) IN Val("num", total \div g, count \div g, <<>>, FALSE)

\* ------------------------------------------------------------ float(text)
DigitChar == <<"0", "1", "2", "3", "4", "5", "6", "7", "8", "9">>
IsDigit(ch) == \E i \in 1..Len(DigitChar) : DigitChar[i] = ch
DigitOf(ch) == (CHOOSE i \in 1..Len(DigitChar) : DigitChar[i] = ch) - 1

RECURSIVE Strip(_)
Strip(s) ==
  IF Len(s) > 0 /\ s[1] = " " THEN Strip(Tail(s))
  ELSE IF Len(s) > 0 /\ s[Len(s)] = " " THEN Strip(SubSeq(s, 1, Len(s) - 1))
  ELSE s

RECURSIVE DigitsValue(_)
DigitsValue(s) ==
  IF Len(s) = 0 THEN 0
  ELSE 10 * DigitsValue(SubSeq(s, 1, Len(s) - 1)) + DigitOf(s[Len(s)])

AllDigits(s) == Len(s) > 0 /\ \A i \in 1..Len(s) : IsDigit(s[i])

\* float(s) for a text of spaces, a sign and decimal digits: the number, or
\* ValueError.
ParseFloat(s) ==
  LET t == Strip(s)
      signed == Len(t) > 0 /\ t[1] \in {"+", "-"}
      body == IF signed THEN Tail(t) ELSE t
  IN IF AllDigits(body)
     THEN Ok(Num(IF signed /\ t[1] = "-" THEN -DigitsValue(body) ELSE DigitsValue(body)))
     ELSE Raise("ValueError", "could not convert string to float")

\* float(new_value) inside try/except ValueError: a JSON number converts, a
\* text that does not parse is kept, null or a list raises TypeError.
ToNumberOrKeep(v) ==
  IF v.k = "num" THEN Ok(Num(v.n))
  ELSE IF v.k = "str"
       THEN (IF ParseFloat(v.s).ok THEN ParseFloat(v.s) ELSE Ok(Txt(v.s)))
  ELSE Raise("TypeError", MsgNotNumber)

\* str(n), the text csv.writer writes for an integer.
RECURSIVE Digits(_)
Digits(n) ==
  IF n < 0 THEN <<"-">> \o Digits(-n)
  ELSE IF n < 10 THEN <<DigitChar[n + 1]>>
  ELSE Digits(n \div 10) \o <<DigitChar[(n % 10) + 1]>>

\* ------------------------------------------------------------ aggregation
\* isinstance(cell.value, (int, float)): True for a number, and for a bool,
\* which is an int in Python (True adds 1, False adds 0).
IsNumeric(v) == v.t \in {"num", "bool"}
NumericValue(v) == IF v.t = "bool" THEN (IF v.b THEN 1 ELSE 0) ELSE v.n

\* The cells of sheet[cell_range] in the order the two for loops visit them.
RECURSIVE Flatten(_)
Flatten(rows) == IF Len(rows) = 0 THEN <<>> ELSE Head(rows) \o Flatten(Tail(rows))

RECURSIVE Total(_, _)
Total(cells, seq) ==
  IF Len(seq) = 0 THEN 0
  ELSE (IF IsNumeric(cells[Head(seq)]) THEN NumericValue(cells[Head(seq)]) ELSE 0)
       + Total(cells, Tail(seq))

Count(cells, seq) == Cardinality({i \in 1..Len(seq) : IsNumeric(cells[seq[i]])})

\* ------------------------------------------------------------ results
XlsxMime == "application/vnd.openxmlformats-officedocument.spreadsheetml.sheet"
CsvMime == "text/csv"
OutFile(mime, doc, csv) == [mime |-> mime, doc |-> doc, csv |-> csv]
NoFile == OutFile("", NoDoc, <<>>)

\* A response: its HTTP status, the key of its JSON body ("result" or
\* "error"), the result ({value: ...} or {file: ...}) or the error message.
Payload(shape, value, file) == [shape |-> shape, value |-> value, file |-> file]
NoPayload == Payload("", None, NoFile)
Response(status, key, payload, msg) ==
  [status |-> status, key |-> key, shape |-> payload.shape, value |-> payload.value,
   file |-> payload.file, msg |-> msg]
NoResponse == Response(0, "", NoPayload, "")

\* What the try body of run_tool ends with: the response it returns, or the
\* exception that leaves it; log lists what it did, in order.
Done(payload, log) == [out |-> Ok(Response(200, "result", payload, "")), log |-> log]
Fail(r, log) == [out |-> Raise(r.exc, r.msg), log |-> log]

\* workbook.save and what a later load of the written file reads back: a cell
\* set to the empty string is written without a value.
SavedValue(v) == IF v = Txt(<<>>) THEN None ELSE v
Save(wb) ==
  Doc([i \in 1..Len(wb.sheets) |->
         Sheet(wb.sheets[i].title, [c \in Cells |-> SavedValue(wb.sheets[i].cells[c])])],
      wb.active)

\* sheet.iter_rows(values_only=True): rows 1..max_row of columns 1..max_column,
\* where max_row and max_column are those of the cells the sheet holds; no
\* row at all for a sheet that holds no cell.
Populated(cells) == {c \in Cells : cells[c] # None}
MaxOf(S) == IF S = {} THEN 0 ELSE CHOOSE m \in S : \A x \in S : x <= m
max_row(cells) == MaxOf({c[1] : c \in Populated(cells)})
max_column(cells) == MaxOf({c[2] : c \in Populated(cells)})
iter_rows(cells) ==
  [r \in 1..max_row(cells) |-> [c \in 1..max_column(cells) |-> cells[<<r, c>>]]]

\* The text csv.writer writes for a value: nothing for None, str() otherwise.
CsvField(v) ==
  IF v.t = "none" THEN <<>>
  ELSE IF v.t = "str" THEN v.s
  ELSE IF v.t = "bool" THEN (IF v.b THEN <<"T", "r", "u", "e">> ELSE <<"F", "a", "l", "s", "e">>)
  ELSE Digits(v.n)
CsvRows(rows) == [r \in 1..Len(rows) |-> [c \in 1..Len(rows[r]) |-> CsvField(rows[r][c])]]

\* workbook.active: the sheet at the workbook's active index, which the file
\* states (the tab that was selected when it was saved).
ActiveSheet(wb) == wb.sheets[wb.active]

\* ------------------------------------------------------------ the tools
\* params = [file, range, cell, value], each a JSON value; pk says what the
\* body's "parameters" is.
\* A variant that reads both parameters before it decodes the file.
sum_range_params_first(pk, params) ==
  LET f == GetParam(pk, params.file) IN
  IF ~f.ok THEN Fail(f, <<"param">>) ELSE
  LET rp == GetParam(pk, params.range) IN
  IF ~rp.ok THEN Fail(rp, <<"param", "param">>) ELSE
  LET wb == load_workbook_from_b64(f.val) IN
  IF ~wb.ok THEN Fail(wb, <<"param", "param", "decode">>) ELSE
  LET pr == parse_range_string(rp.val) IN
  IF ~pr.ok THEN Fail(pr, <<"param", "param", "decode", "parse">>) ELSE
  LET sh == WorkbookGetItem(wb.val, pr.val[1]) IN
  IF ~sh.ok THEN Fail(sh, <<"param", "param", "decode", "parse", "lookup">>) ELSE
  LET rg == SheetGetItem(pr.val[2])
      log == <<"param", "param", "decode", "parse", "lookup", "access">> IN
  IF ~rg.ok THEN Fail(rg, log) ELSE
  IF rg.val.shape = "cell" THEN Fail(Raise("TypeError", MsgNotIterable), log) ELSE
  Done(Payload("value", Num(Total(wb.val.sheets[sh.val].cells, Flatten(rg.val.rows))), NoFile), log)

sum_range(pk, params) ==
  LET f == GetParam(pk, params.file) IN
  IF ~f.ok THEN Fail(f, <<"param">>) ELSE
  LET wb == load_workbook_from_b64(f.val) IN
  IF ~wb.ok THEN Fail(wb, <<"param", "decode">>) ELSE
  LET rp == GetParam(pk, params.range) IN
  IF ~rp.ok THEN Fail(rp, <<"param", "decode", "param">>) ELSE
  LET pr == parse_range_string(rp.val) IN
  IF ~pr.ok THEN Fail(pr, <<"param", "decode", "param", "parse">>) ELSE
  LET sh == WorkbookGetItem(wb.val, pr.val[1]) IN
  IF ~sh.ok THEN Fail(sh, <<"param", "decode", "param", "parse", "lookup">>) ELSE
  LET rg == SheetGetItem(pr.val[2])
      log == <<"param", "decode", "param", "parse", "lookup", "access">> IN
  IF ~rg.ok THEN Fail(rg, log) ELSE
  IF rg.val.shape = "cell" THEN Fail(Raise("TypeError", MsgNotIterable), log) ELSE
  Done(Payload("value", Num(Total(wb.val.sheets[sh.val].cells, Flatten(rg.val.rows))), NoFile), log)

avg_range(pk, params) ==
  LET f == GetParam(pk, params.file) IN
  IF ~f.ok THEN Fail(f, <<"param">>) ELSE
  LET wb == load_workbook_from_b64(f.val) IN
  IF ~wb.ok THEN Fail(wb, <<"param", "decode">>) ELSE
  LET rp == GetParam(pk, params.range) IN
  IF ~rp.ok THEN Fail(rp, <<"param", "decode", "param">>) ELSE
  LET pr == parse_range_string(rp.val) IN
  IF ~pr.ok THEN Fail(pr, <<"param", "decode", "param", "parse">>) ELSE
  LET sh == WorkbookGetItem(wb.val, pr.val[1]) IN
  IF ~sh.ok THEN Fail(sh, <<"param", "decode", "param", "parse", "lookup">>) ELSE
  LET rg == SheetGetItem(pr.val[2])
      log == <<"param", "decode", "param", "parse", "lookup", "access">> IN
  IF ~rg.ok THEN Fail(rg, log) ELSE
  IF rg.val.shape = "cell" THEN Fail(Raise("TypeError", MsgNotIterable), log) ELSE
  LET cells == wb.val.sheets[sh.val].cells
      total == Total(cells, Flatten(rg.val.rows))
      count == Count(cells, Flatten(rg.val.rows))
      average == IF count > 0 THEN TrueDiv(total, count) ELSE Num(0)
  IN Done(Payload("value", average, NoFile), log)

get_cell(pk, params) ==
  LET f == GetParam(pk, params.file) IN
  IF ~f.ok THEN Fail(f, <<"param">>) ELSE
  LET wb == load_workbook_from_b64(f.val) IN
  IF ~wb.ok THEN Fail(wb, <<"param", "decode">>) ELSE
  LET cp == GetParam(pk, params.cell) IN
  IF ~cp.ok THEN Fail(cp, <<"param", "decode", "param">>) ELSE
  LET pr == parse_range_string(cp.val) IN
  IF ~pr.ok THEN Fail(pr, <<"param", "decode", "param", "parse">>) ELSE
  LET sh == WorkbookGetItem(wb.val, pr.val[1]) IN
  IF ~sh.ok THEN Fail(sh, <<"param", "decode", "param", "parse", "lookup">>) ELSE
  LET at == SheetGetItem(pr.val[2])
      log == <<"param", "decode", "param", "parse", "lookup", "access">> IN
  IF ~at.ok THEN Fail(at, log) ELSE
  IF at.val.shape # "cell" THEN Fail(Raise("AttributeError", MsgNoValue), log) ELSE
  Done(Payload("value", wb.val.sheets[sh.val].cells[at.val.cell], NoFile), log)

set_cell(pk, params) ==
  LET f == GetParam(pk, params.file) IN
  IF ~f.ok THEN Fail(f, <<"param">>) ELSE
  LET wb == load_workbook_from_b64(f.val) IN
  IF ~wb.ok THEN Fail(wb, <<"param", "decode">>) ELSE
  LET cp == GetParam(pk, params.cell) IN
  IF ~cp.ok THEN Fail(cp, <<"param", "decode", "param">>) ELSE
  LET pr == parse_range_string(cp.val) IN
  IF ~pr.ok THEN Fail(pr, <<"param", "decode", "param", "parse">>) ELSE
  LET vp == GetParam(pk, params.value) IN
  IF ~vp.ok THEN Fail(vp, <<"param", "decode", "param", "parse", "param">>) ELSE
  LET sh == WorkbookGetItem(wb.val, pr.val[1]) IN
  IF ~sh.ok THEN Fail(sh, <<"param", "decode", "param", "parse", "param", "lookup">>) ELSE
  LET new_value == ToNumberOrKeep(vp.val) IN
  IF ~new_value.ok
  THEN Fail(new_value, <<"param", "decode", "param", "parse", "param", "lookup">>) ELSE
  LET at == SheetGetItem(pr.val[2])
      log == <<"param", "decode", "param", "parse", "param", "lookup", "access">> IN
  IF ~at.ok THEN Fail(at, log) ELSE
  IF at.val.shape # "cell" THEN Fail(Raise("AttributeError", MsgNoValue), log) ELSE
  LET written ==
        [wb.val EXCEPT !.sheets[sh.val].cells[at.val.cell] = new_value.val]
  IN Done(Payload("file", None, OutFile(XlsxMime, Save(written), <<>>)),
          log \o <<"write", "save">>)

to_csv(pk, params) ==
  LET f == GetParam(pk, params.file) IN
  IF ~f.ok THEN Fail(f, <<"param">>) ELSE
  LET wb == load_workbook_from_b64(f.val) IN
  IF ~wb.ok THEN Fail(wb, <<"param", "decode">>) ELSE
  Done(Payload("file", None,
               OutFile(CsvMime, NoDoc, CsvRows(iter_rows(ActiveSheet(wb.val).cells)))),
       <<"param", "decode", "active", "access">>)

\* ------------------------------------------------------------ run_tool
Tools == {"sum_range", "avg_range", "get_cell", "set_cell", "to_csv"}

\* The classes except Exception catches: every exception the body raises.
Exceptions ==
  {"KeyError", "TypeError", "ValueError", "IOError", "AttributeError", "IndexError",
   "BadRequest"}

\* A variant whose first clause also catches ValueError.
HandleValueErrorAsParameter(r) ==
  IF r.out.ok THEN r.out.val
  ELSE IF r.out.exc \in {"KeyError", "TypeError", "ValueError"}
       THEN Response(400, "error", NoPayload, r.out.msg)
  ELSE IF r.out.exc \in Exceptions THEN Response(500, "error", NoPayload, r.out.msg)
  ELSE NoResponse

\* A variant without the catch-all clause.
HandleWithoutCatchAll(r) ==
  IF r.out.ok THEN r.out.val
  ELSE IF r.out.exc \in {"KeyError", "TypeError"} THEN Response(400, "error", NoPayload, r.out.msg)
  ELSE NoResponse

\* The two except clauses of run_tool; an exception neither catches leaves
\* the handler without a response of its own.
Handle(r) ==
  IF r.out.ok THEN r.out.val
  ELSE IF r.out.exc \in {"KeyError", "TypeError"} THEN Response(400, "error", NoPayload, r.out.msg)
  ELSE IF r.out.exc \in Exceptions THEN Response(500, "error", NoPayload, r.out.msg)
  ELSE NoResponse

\* A variant that decodes the file once, before the chain.
DispatchAfterDecode(data) ==
  LET f == GetParam(data.pk, data.params.file) IN
  IF ~f.ok THEN Fail(f, <<"param">>) ELSE
  LET wb == load_workbook_from_b64(f.val) IN
  IF ~wb.ok THEN Fail(wb, <<"param", "decode">>) ELSE
  IF data.tool_id = "sum_range" THEN sum_range(data.pk, data.params)
  ELSE IF data.tool_id = "avg_range" THEN avg_range(data.pk, data.params)
  ELSE IF data.tool_id = "get_cell" THEN get_cell(data.pk, data.params)
  ELSE IF data.tool_id = "set_cell" THEN set_cell(data.pk, data.params)
  ELSE IF data.tool_id = "to_csv" THEN to_csv(data.pk, data.params)
  ELSE [out |-> Ok(Response(404, "error", NoPayload, "Tool not found.")), log |-> <<"param", "decode">>]

\* The if/elif chain on tool_id, with its else branch.
Dispatch(data) ==
  IF data.tool_id = "sum_range" THEN sum_range(data.pk, data.params)
  ELSE IF data.tool_id = "avg_range" THEN avg_range(data.pk, data.params)
  ELSE IF data.tool_id = "get_cell" THEN get_cell(data.pk, data.params)
  ELSE IF data.tool_id = "set_cell" THEN set_cell(data.pk, data.params)
  ELSE IF data.tool_id = "to_csv" THEN to_csv(data.pk, data.params)
  ELSE [out |-> Ok(Response(404, "error", NoPayload, "Tool not found.")), log |-> <<>>]

\* The try body: request.json, data.get, the chain.  data.body is "object"
\* for a JSON object, "array" or "null" for JSON that has no .get, "invalid"
\* for a body request.json rejects.
TryBody(data) ==
  IF data.body = "invalid" THEN Fail(Raise("BadRequest", MsgBadJson), <<>>)
  ELSE IF data.body # "object" THEN Fail(Raise("AttributeError", MsgNoGet), <<>>)
  ELSE Dispatch(data)

run_tool(data) == LET r == TryBody(data) IN [resp |-> Handle(r), log |-> r.log]

\* ------------------------------------------------------------ requests
Params(file, range, cell, value) ==
  [file |-> file, range |-> range, cell |-> cell, value |-> value]
Request(body, tool_id, pk, params) ==
  [body |-> body, tool_id |-> tool_id, pk |-> pk, params |-> params]
NoRequest == Request("", "", "", Params(Missing, Missing, Missing, Missing))

\* Documents the client may start with: a workbook "Sheet1", alone or
\* followed by "Sheet2", with either as the active sheet.  Sheet1 is the empty
\* grid with two cells set (to a value or to nothing), Sheet2 holds one text.
Sparse ==
  {[[EmptyGrid EXCEPT ![c] = v] EXCEPT ![d] = w] :
     c \in Cells, d \in Cells, v \in FileValues \cup {None}, w \in FileValues \cup {None}}
SecondGrid == [EmptyGrid EXCEPT ![<<1, 1>>] = Txt(<<"x">>)]
Documents ==
  {Doc(<<Sheet("Sheet1", g)>>, 1) : g \in Sparse}
  \cup {Doc(<<Sheet("Sheet1", g), Sheet("Sheet2", SecondGrid)>>, a) : g \in Sparse, a \in {1, 2}}

\* File parameters: the client's workbook, a string with no comma, a payload
\* that is no base64, bytes that are no workbook, no file, a number, null.
BadFiles ==
  {JFile(Url(FALSE, FALSE, FALSE, NoDoc)), JFile(Url(TRUE, FALSE, FALSE, NoDoc)),
   JFile(Url(TRUE, TRUE, FALSE, NoDoc)), Missing, JNum(5), JNull}
GoodFile(doc) == JFile(XlsxUrl(doc))

\* Reference parameters: a cell of either sheet, a span of Sheet1 (top left
\* to bottom right, and one written backwards), and references that are no
\* string, hold no '!', name no sheet or hold no address.
Coords == {Coord(c, r) : c \in Cols, r \in Rows}
Spans ==
  {<<p[1], Colon, p[2]>> :
     p \in {q \in Coords \X Coords : q[2].col >= q[1].col /\ q[2].row >= q[1].row}}
  \cup {<<Coord(MaxCol, MaxRow), Colon, Coord(1, 1)>>}
SingleRefs == {JRef(<<NameTok(n), Bang, a>>) : n \in {"Sheet1", "Sheet2"}, a \in Coords}
SpanRefs == {JRef(<<NameTok("Sheet1"), Bang>> \o sp) : sp \in Spans}
OddRefs ==
  {Missing, JNum(7), JNull, JList,
   JRef(<<Coord(1, 1)>>), JRef(<<Coord(1, 1), Colon, Coord(1, 2)>>),
   JRef(<<NameTok("Nope"), Bang, Coord(1, 1)>>),
   JRef(<<NameTok("Nope"), Bang, Coord(1, 1), Colon, Coord(1, 2)>>),
   JRef(<<NameTok("Sheet1"), Bang, Junk>>), JRef(<<NameTok("Sheet1"), Bang>>),
   JRef(<<NameTok("Sheet1"), Bang, Coord(1, 1), Bang, Coord(1, 1)>>)}
Refs == SingleRefs \cup SpanRefs \cup OddRefs
FewRefs == {Missing, JRef(<<Coord(1, 1)>>), JRef(<<NameTok("Sheet1"), Bang, Coord(1, 1)>>),
            JRef(<<NameTok("Sheet1"), Bang, Coord(1, 1), Colon, Coord(1, 2)>>)}

\* Value parameters of set_cell.
Texts == {<<"2">>, <<"x">>, <<>>, <<" ", "1">>, <<"-", "1", "0">>, <<"2", "x">>}
Values == {JStr(t) : t \in Texts} \cup {Missing, JNull, JNum(3)}

\* ------------------------------------------------------------ the system
\* cur: the workbook the client holds.  pc: "idle", "responded" (a request
\* was answered), "followed" (a get_cell on the file a set_cell returned was
\* answered).  req, resp, log: the request being answered, its response and
\* what the handler did.  prior: the set_cell request a follow-up builds on.
VARIABLES cur, pc, req, resp, log, prior
vars == <<cur, pc, req, resp, log, prior>>

Init ==
  /\ cur \in Documents
  /\ pc = "idle"
  /\ req = NoRequest
  /\ resp = NoResponse
  /\ log = <<>>
  /\ prior = NoRequest

\* POST /mcp/run with body data: the handler runs to its response.
Post(data) ==
  /\ req' = data
  /\ \E r \in {run_tool(data)} : resp' = r.resp /\ log' = r.log
  /\ pc' = "responded"
  /\ UNCHANGED <<cur, prior>>

\* The (file, reference) pairs the client sends for its workbook.
FileRefs == ({GoodFile(cur)} \X Refs) \cup (BadFiles \X FewRefs)

SumRange ==
  /\ pc = "idle"
  /\ \E fr \in FileRefs :
       Post(Request("object", "sum_range", "dict", Params(fr[1], fr[2], Missing, Missing)))

AvgRange ==
  /\ pc = "idle"
  /\ \E fr \in FileRefs :
       Post(Request("object", "avg_range", "dict", Params(fr[1], fr[2], Missing, Missing)))

GetCell ==
  /\ pc = "idle"
  /\ \E fr \in FileRefs :
       Post(Request("object", "get_cell", "dict", Params(fr[1], Missing, fr[2], Missing)))

SetCell ==
  /\ pc = "idle"
  /\ \E fr \in FileRefs, v \in Values :
       /\ fr[1] = GoodFile(cur) \/ v \in {Missing, JStr(<<"2">>)}
       /\ fr[2] \in SingleRefs \/ v \in {Missing, JStr(<<"2">>)}
       /\ Post(Request("object", "set_cell", "dict", Params(fr[1], Missing, fr[2], v)))

ToCsv ==
  /\ pc = "idle"
  /\ \E f \in {GoodFile(cur)} \cup BadFiles :
       Post(Request("object", "to_csv", "dict", Params(f, Missing, Missing, Missing)))

\* A body whose "parameters" is absent or no mapping.
NoMapping ==
  /\ pc = "idle"
  /\ \E t \in Tools, pk \in {"absent", "null", "list", "str"} :
       Post(Request("object", t, pk, Params(Missing, Missing, Missing, Missing)))

\* A tool_id that names no tool ("" stands for a body without tool_id).
UnknownTool ==
  /\ pc = "idle"
  /\ \E t \in {"does_not_exist", ""}, pk \in {"dict", "absent", "null", "list"},
        f \in {GoodFile(cur), JFile(Url(FALSE, FALSE, FALSE, NoDoc)), Missing} :
       /\ pk = "dict" \/ f = Missing
       /\ Post(Request("object", t, pk, Params(f, Missing, Missing, Missing)))

\* A body that is no JSON object.
BadBody ==
  /\ pc = "idle"
  /\ \E b \in {"array", "null", "invalid"} :
       Post(Request(b, "", "", Params(Missing, Missing, Missing, Missing)))

\* The data URL of a returned file, sent back as a file parameter.
DataUrl(file) == Url(TRUE, TRUE, file.mime = XlsxMime, file.doc)

\* get_cell on the file a set_cell has just returned.
FollowUp ==
  /\ pc = "responded"
  /\ req.tool_id = "set_cell"
  /\ resp.status = 200
  /\ \E c \in {req.params.cell, JRef(<<NameTok("Sheet1"), Bang, Coord(1, 1)>>)} :
       LET data == Request("object", "get_cell", "dict",
                           Params(JFile(DataUrl(resp.file)), Missing, c, Missing))
       IN /\ req' = data
          /\ \E r \in {run_tool(data)} : resp' = r.resp /\ log' = r.log
  /\ prior' = req
  /\ pc' = "followed"
  /\ UNCHANGED cur

\* The client takes the response; nothing of the request outlives it.
Receive ==
  /\ pc \in {"responded", "followed"}
  /\ pc' = "idle"
  /\ req' = NoRequest
  /\ resp' = NoResponse
  /\ log' = <<>>
  /\ prior' = NoRequest
  /\ UNCHANGED cur

Next ==
  \/ SumRange
  \/ AvgRange
  \/ GetCell
  \/ SetCell
  \/ ToCsv
  \/ NoMapping
  \/ UnknownTool
  \/ BadBody
  \/ FollowUp
  \/ Receive

Spec == Init /\ [][Next]_vars

\* ------------------------------------------------------------ what the claims speak of
Answered == pc \in {"responded", "followed"}
ToolRequest(t) == Answered /\ req.body = "object" /\ req.tool_id = t
Success == resp.status = 200 /\ resp.key = "result"

\* The file parameter is a data URL that decodes to a workbook.
Decodes(file) == file.k = "str" /\ file.url.comma /\ file.url.b64 /\ file.url.zip

\* The parameters each tool requires.
Required(t) ==
  IF t \in {"sum_range", "avg_range"} THEN {"file", "range"}
  ELSE IF t = "get_cell" THEN {"file", "cell"}
  ELSE IF t = "set_cell" THEN {"file", "cell", "value"}
  ELSE {"file"}
RefName(t) == IF t \in {"sum_range", "avg_range"} THEN "range" ELSE "cell"

\* A reference "Name!address" as the specification reads it.
IsQualified(ref) == ref.k = "str" /\ Len(ref.toks) >= 2 /\ ref.toks[1].t = "name" /\ ref.toks[2] = Bang
Address(ref) == SubSeq(ref.toks, 3, Len(ref.toks))
Names(doc) == {doc.sheets[i].title : i \in 1..Len(doc.sheets)}
SheetNamed(doc, name) == doc.sheets[CHOOSE i \in 1..Len(doc.sheets) : doc.sheets[i].title = name]
IsCellAddress(a) == Len(a) = 1 /\ a[1].t = "coord"
IsSpanAddress(a) ==
  /\ Len(a) = 3 /\ a[1].t = "coord" /\ a[2] = Colon /\ a[3].t = "coord"
  /\ a[1].col <= a[3].col /\ a[1].row <= a[3].row
IsRangeAddress(a) == IsCellAddress(a) \/ IsSpanAddress(a)
RangeCells(a) ==
  {c \in Cells : /\ a[1].row <= c[1] /\ c[1] <= a[Len(a)].row
                 /\ a[1].col <= c[2] /\ c[2] <= a[Len(a)].col}

\* The sum and the number of the cells of S that hold a number.
NumberCells(cells, S) == {c \in S : cells[c].t = "num"}
RECURSIVE SumOf(_, _)
SumOf(cells, S) ==
  IF S = {} THEN 0
  ELSE LET c == CHOOSE x \in S : TRUE IN cells[c].n + SumOf(cells, S \ {c})

\* A sum_range or avg_range request on a workbook that decodes, an existing
\* sheet and a valid range of it.
RangeRequest(t) ==
  /\ ToolRequest(t) /\ pc = "responded" /\ req.pk = "dict"
  /\ Decodes(req.params.file)
  /\ IsQualified(req.params.range)
  /\ req.params.range.toks[1].name \in Names(req.params.file.url.doc)
  /\ IsRangeAddress(Address(req.params.range))
RangeSheet == SheetNamed(req.params.file.url.doc, req.params.range.toks[1].name).cells
RangeNumbers == NumberCells(RangeSheet, RangeCells(Address(req.params.range)))

\* C1: sum_range on a workbook that decodes, an existing sheet and a valid
\* range answers {value: S}, S the sum of the cells of the range that hold a
\* number (0 when none does).
C1_SumRangeSumsNumbers ==
  RangeRequest("sum_range") =>
    Success /\ resp.shape = "value" /\ resp.value = Num(SumOf(RangeSheet, RangeNumbers))

\* C2: avg_range answers the sum of the numeric cells of the range divided by
\* their number, so that the average times the count is the sum; with no
\* numeric cell it answers the value 0, a success.
C2_AvgRangeIsSumOverCount ==
  RangeRequest("avg_range") =>
    /\ Success /\ resp.shape = "value" /\ resp.value.t = "num"
    /\ resp.value.n * Cardinality(RangeNumbers) = SumOf(RangeSheet, RangeNumbers) * resp.value.d
    /\ (RangeNumbers = {} => resp.value = Num(0))

\* The value a text written by set_cell stands for: the number it parses to,
\* otherwise the text itself.
WrittenValue(text) == IF ParseFloat(text).ok THEN ParseFloat(text).val ELSE Txt(text)

\* C3: set_cell(file, cell, v) for a text v and then get_cell on the returned
\* file with the same cell reference returns the written value: the number v
\* parses to, otherwise the text v unchanged.
C3_SetThenGetRoundTrip ==
  (pc = "followed" /\ prior.params.value.k = "str" /\ req.params.cell = prior.params.cell) =>
    Success /\ resp.shape = "value" /\ resp.value = WrittenValue(prior.params.value.s)

\* A required parameter that is missing or is no string.
BadParameter(p) == req.pk = "absent" \/ p.k \in {"missing", "num", "null", "list"}

\* C4: a request to a tool with a required parameter missing or of the wrong
\* type fails with InvalidParameters (400), whatever the other parameters are.
C4_BadParameterIs400 ==
  (pc = "responded" /\ req.body = "object" /\ req.tool_id \in Tools
     /\ req.pk \in {"dict", "absent"}
     /\ \E name \in Required(req.tool_id) : BadParameter(req.params[name]))
  => resp.status = 400 /\ resp.key = "error"

\* The parameters the tool requires are all present and strings.
StringParameters ==
  req.pk = "dict" /\ \A name \in Required(req.tool_id) : req.params[name].k = "str"
Ref == req.params[RefName(req.tool_id)]
Did(event) == \E i \in 1..Len(log) : log[i] = event
NoSeparator(ref) == ref.k = "str" /\ \A i \in 1..Len(ref.toks) : ref.toks[i] # Bang

\* The failures of decoding and resolving the specification names.
Undecodable == ~req.params.file.url.comma \/ ~req.params.file.url.b64
Unparsable == req.params.file.url.comma /\ req.params.file.url.b64 /\ ~req.params.file.url.zip
UnknownSheet ==
  /\ req.tool_id # "to_csv" /\ Decodes(req.params.file) /\ ~NoSeparator(Ref)
  /\ ~(IsQualified(Ref) /\ Ref.toks[1].name \in Names(req.params.file.url.doc))
InvalidAddress ==
  /\ req.tool_id # "to_csv" /\ Decodes(req.params.file) /\ IsQualified(Ref)
  /\ Ref.toks[1].name \in Names(req.params.file.url.doc)
  /\ ~IsCellAddress(Address(Ref))
  /\ ~(Len(Address(Ref)) = 3 /\ Address(Ref)[1].t = "coord" /\ Address(Ref)[2] = Colon
         /\ Address(Ref)[3].t = "coord")
KnownToolWithStrings == Answered /\ req.body = "object" /\ req.tool_id \in Tools /\ StringParameters

\* C5 as stated: a request to a known tool with all required parameters
\* present as strings that fails while decoding the file or resolving the
\* reference (undecodable data URL, unparsable document, unknown sheet name,
\* syntactically invalid address) is answered with ExecutionError (500).
C5_ResolutionFailureIs500 ==
  (KnownToolWithStrings /\ (Undecodable \/ Unparsable \/ UnknownSheet \/ InvalidAddress))
  => resp.status = 500 /\ resp.key = "error"

\* C5 amended: an undecodable data URL, an unparsable document and a
\* syntactically invalid address are answered with ExecutionError (500); an
\* unknown sheet name is answered with InvalidParameters (400); none with 404
\* or a result.
C5_ResolutionFailureStatus ==
  KnownToolWithStrings =>
    /\ (Undecodable \/ Unparsable \/ InvalidAddress) => resp.status = 500 /\ resp.key = "error"
    /\ UnknownSheet => resp.status = 400 /\ resp.key = "error" /\ resp.msg = MsgNoSheet

C5_Witness ==
  /\ KnownToolWithStrings /\ req.tool_id = "set_cell" /\ UnknownSheet
  /\ resp.status = 400 /\ Did("lookup")

\* C6: a request whose tool_id names none of the five tools is answered with
\* ToolNotFound (404) whatever its parameters are, and the handler inspects
\* no parameter and decodes no file before it answers.
C6_UnknownToolIs404 ==
  (Answered /\ req.body = "object" /\ req.tool_id \notin Tools)
  => resp.status = 404 /\ resp.key = "error" /\ log = <<>>

C6_Witness ==
  /\ Answered /\ req.tool_id = "does_not_exist" /\ req.pk = "dict"
  /\ req.params.file.k = "str" /\ ~req.params.file.url.comma
  /\ resp.status = 404

\* The two shapes of a response.
IsResult ==
  /\ resp.status = 200 /\ resp.key = "result" /\ resp.msg = ""
  /\ \/ resp.shape = "value" /\ resp.file = NoFile
     \/ resp.shape = "file" /\ resp.value = None /\ resp.file.mime \in {XlsxMime, CsvMime}
IsError ==
  /\ resp.key = "error" /\ resp.status \in {400, 404, 500}
  /\ resp.shape = "" /\ resp.value = None /\ resp.file = NoFile

\* C7: every request, whatever its body, ends in a response that is either a
\* complete result with a success status or an error with a non-2xx status,
\* never both and never neither: no failure leaves the handler.
C7_ResultOrError == Answered => (IsResult /\ ~IsError) \/ (IsError /\ ~IsResult)

C7_Witness ==
  /\ ToolRequest("set_cell") /\ Did("lookup") /\ Did("access")
  /\ resp.status = 500 /\ IsError

\* C8: to_csv on a workbook that decodes answers a text/csv file that holds,
\* for the first sheet of the workbook, one record per row, top to bottom,
\* each with one field per column, left to right, the field being the value
\* of the cell (empty for an empty cell).
C8_CsvOfFirstSheet ==
  (ToolRequest("to_csv") /\ req.pk = "dict" /\ Decodes(req.params.file))
  => /\ Success /\ resp.shape = "file" /\ resp.file.mime = CsvMime
     /\ resp.file.csv = CsvRows(iter_rows(req.params.file.url.doc.sheets[1].cells))

\* C9: for sum_range, avg_range, get_cell and set_cell, a file that decodes
\* and a reference string without '!' fail with InvalidReference before any
\* sheet lookup or cell access; set_cell writes no cell and returns no file.
C9_NoSeparatorIsRejected ==
  (Answered /\ req.body = "object" /\ req.tool_id \in Tools \ {"to_csv"} /\ req.pk = "dict"
     /\ Decodes(req.params.file) /\ NoSeparator(Ref))
  => /\ resp.key = "error" /\ resp.msg = MsgNoBang /\ resp.shape = ""
     /\ ~Did("lookup") /\ ~Did("access") /\ ~Did("write") /\ ~Did("save")

C9_Witness ==
  /\ ToolRequest("set_cell") /\ req.pk = "dict" /\ Decodes(req.params.file)
  /\ NoSeparator(Ref) /\ req.params.value.k = "str"
  /\ resp.msg = MsgNoBang /\ Did("parse")

\* A request to a known tool that ends in InvalidParameters for a missing
\* parameter.
EndsInMissingParameter ==
  /\ pc = "responded" /\ req.body = "object" /\ req.tool_id \in Tools /\ req.pk = "dict"
  /\ \E name \in Required(req.tool_id) : req.params[name].k = "missing"
  /\ resp.status = 400 /\ resp.msg = MsgMissing

====
